---- MODULE Spec2Model ----
(***************************************************************************)
(* A model of scrape_images.py: the resumable, rate-limited image scraper. *)
(* main() is modelled statement group by statement group (pc names the     *)
(* next group), fetch_image_url() attempt by attempt.  The catalog file,   *)
(* the output file and the web server are the environment.                 *)
(***************************************************************************)
EXTENDS Integers, Sequences, FiniteSets, TLC

\* ------------------------------------------------------------ constants
BATCH_SAVE_EVERY == 20
MAX_RETRIES == 2
\* "if consecutive_fails >= 5"
FAIL_THRESHOLD == 5
\* "(2 ** attempt) * 10 + random.uniform(2, 8)"
BACKOFF_BASE == 10
JITTER_LO == 2
JITTER_HI == 8

\* ---------------------------------------------------------------- bounds
\* Small catalogs hold up to MaxTargets distinct addresses.
MaxTargets == 5
\* The large catalog holds BATCH_SAVE_EVERY + Extra distinct addresses.
Extra == 1
\* Responses a steady server may give against its mode during one run.
MaxGlitches == 1
\* The catalogs of the runs that count their requests hold up to
\* CountedTargets distinct addresses.
CountedTargets == 3

\* ---------------------------------------------------------------- values
\* Python's None, the reference the oracle extracts, a reference of an
\* earlier run.
None == "None"
NewRef == "img_new"
OldRef == "img_old"

\* A catalog item without (or with an empty) canonical_url.
NoUrl == 0

\* JSON values of the output file.
JNull == [type |-> "null"]
JString(s) == [type |-> "string", s |-> s]

EmptyMap == <<>>

Range(s) == {s[i] : i \in DOMAIN s}

\* DictSet that starts a new dict: the other entries are gone.
DictSet_DropsOthers(d, k, v) == [x \in {k} |-> v]

\* d[k] = v
DictSet(d, k, v) == [x \in (DOMAIN d) \cup {k} |-> IF x = k THEN v ELSE d[x]]

\* json.dump(results, f): None becomes null, a str a JSON string.
JsonDump(d) == [k \in DOMAIN d |-> IF d[k] = None THEN JNull ELSE JString(d[k])]

\* JsonLoad reading null as the empty string.
JsonLoad_NullAsEmpty(j) ==
    [k \in DOMAIN j |-> IF j[k].type = "null" THEN "" ELSE j[k].s]

\* json.load(f): null becomes None, a JSON string a str.
JsonLoad(j) == [k \in DOMAIN j |-> IF j[k].type = "null" THEN None ELSE j[k].s]

\* ResolvedSubset without its filter: a null entry counts as resolved.
ResolvedSubset_KeepsNulls(raw) == raw

\* {k: v for k, v in raw.items() if v is not None}
ResolvedSubset(raw) == [k \in {x \in DOMAIN raw : raw[x] # None} |-> raw[k]]

\* urls: the set of the truthy canonical_url values of the catalog's items
UrlSet(data) == {data[i] : i \in {j \in DOMAIN data : data[j] # NoUrl}}

\* Pending without its filter: every address is scraped again.
Pending_IgnoresExisting(us, ex) == us

\* [u for u in urls if u not in existing]
Pending(us, ex) == {u \in us : u \notin DOMAIN ex}

\* ------------------------------------------------------------- orderings
\* The elements of a set of addresses in ascending and in descending order.
Ascending(S) ==
    [i \in 1..Cardinality(S) |->
        CHOOSE x \in S : Cardinality({y \in S : y <= x}) = i]

Descending(S) ==
    [i \in 1..Cardinality(S) |->
        CHOOSE x \in S : Cardinality({y \in S : y >= x}) = i]

Rotated(s) == IF s = <<>> THEN s ELSE Tail(s) \o <<Head(s)>>

\* random.shuffle(to_scrape): the orders the model draws from.
Shuffles(S) == {Ascending(S), Descending(S), Rotated(Ascending(S))}

\* ----------------------------------------------------------- environment
\* What one opener.open(...) / read / extract_image_url(html) can do:
\* a page the oracle finds a reference in, a page it finds none in, an
\* HTTPError with a status code, any other exception of the transport
\* (URLError, timeout), an exception raised by the oracle.
Outcome(kind, code) == [kind |-> kind, code |-> code]
NoOutcome == Outcome("none", 0)
PageWithRef == Outcome("page_ref", 200)
PageNoRef == Outcome("page_noref", 200)
HttpCodes == {429, 403, 404}
Outcomes ==
    {PageWithRef, PageNoRef, Outcome("URLError", 0), Outcome("extract_error", 200)}
        \cup {Outcome("HTTPError", c) : c \in HttpCodes}

\* The catalog file: readable JSON holding a list of items, or not.
CatalogOk(data) == [st |-> "ok", data |-> data]
CatalogBad(st) == [st |-> st, data |-> <<>>]

\* The output file: missing, not loadable as a JSON object (unparsable,
\* empty or cut short), or a JSON object.
FileAbsent == [st |-> "absent", m |-> EmptyMap]
FileCorrupt == [st |-> "corrupt", m |-> EmptyMap]
FileOk(m) == [st |-> "ok", m |-> m]

\* -------------------------------------------------------------- state
VARIABLES
    catalog_file,       \* CATALOG_PATH's content
    output_file,        \* OUTPUT_PATH's content
    server,             \* "chaotic", "up" or "down"
    glitches,           \* responses against the server's mode still possible
    pc,                 \* main()'s position
    run,                \* 1: the first process, 2: the process run again
    urls, existing, to_scrape, idx,
    results, completed, found, consecutive_fails,
    attempt, img,
    \* observations of the current top-level fetch
    reqs,               \* requests issued
    blocks,             \* 429/403 responses received
    lastOut,            \* outcome of the last request
    backoffs,           \* the backoff sleeps' durations, while fetching
    returned,           \* what each top-level fetch of this process returned
    \* observations of the run
    slept,              \* a sleep happened since the last request
    warmups,            \* warm-up requests issued
    cooldownAt,         \* values of completed at which a cooldown sleep ran
    flushes,            \* completed writes of the output file
    lastFlush,          \* what the last completed write wrote
    lost,               \* at a crash: results put but not in the output file
    summary,            \* the final "Done!" line: <<found, len(urls)>>
    prior_file,         \* the output file as the process found it
    firstRun,           \* run 2: what run 1 left behind
    counting,           \* whether this behaviour counts its requests
    sent                \* requests for addresses issued, when counting

procVars == <<urls, existing, to_scrape, idx, results, completed, found,
              consecutive_fails, attempt, img>>
fetchObs == <<reqs, blocks, lastOut, backoffs, returned>>
runObs == <<slept, warmups, cooldownAt, flushes, lastFlush, lost, summary,
            prior_file, firstRun, sent>>
vars == <<catalog_file, output_file, server, glitches, pc, run, procVars,
          fetchObs, runObs, counting>>

\* A fresh process: nothing loaded, nothing counted.
FreshProcess ==
    /\ urls = {}
    /\ existing = EmptyMap
    /\ to_scrape = <<>>
    /\ idx = 0
    /\ results = EmptyMap
    /\ completed = 0
    /\ found = 0
    /\ consecutive_fails = 0
    /\ attempt = 0
    /\ img = None
    /\ reqs = 0
    /\ blocks = 0
    /\ lastOut = NoOutcome
    /\ backoffs = <<>>
    /\ returned = EmptyMap
    /\ slept = FALSE
    /\ warmups = 0
    /\ cooldownAt = {}
    /\ flushes = 0
    /\ lastFlush = EmptyMap
    /\ lost = 0
    /\ summary = <<>>
    /\ sent = 0

NoFirstRun == [pending |-> {}, nulls |-> {}]

\* ------------------------------------------------------------- inputs
\* n distinct addresses, one item without an address, one duplicate.
CatalogItems(n) ==
    [i \in 1..n |-> i] \o <<NoUrl>> \o (IF n > 0 THEN <<1>> ELSE <<>>)

SmallCatalogs ==
    {CatalogOk(CatalogItems(n)) : n \in 0..MaxTargets}
        \cup {CatalogBad("unreadable"), CatalogBad("corrupt")}

LargeCatalog == CatalogOk(CatalogItems(BATCH_SAVE_EVERY + Extra))

\* An address no catalog lists.
StaleKey == 2 * BATCH_SAVE_EVERY + Extra + 1

\* Prior output files: per key, no entry, a null entry or a reference.
PriorChoice == {"absent", "null", "ref"}
PriorMap(c1, c2, c3) ==
    LET pick == (1 :> c1) @@ (2 :> c2) @@ (StaleKey :> c3)
        keys == {k \in DOMAIN pick : pick[k] # "absent"}
    IN  [k \in keys |-> IF pick[k] = "null" THEN JNull ELSE JString(OldRef)]

SmallPriors ==
    {FileAbsent, FileCorrupt}
        \cup {FileOk(PriorMap(c1, c2, c3)) :
                c1 \in PriorChoice, c2 \in PriorChoice, c3 \in {"absent", "ref"}}

LargePriors == {FileOk(PriorMap("null", "absent", "ref"))}

\* Two batches and more, for a server that never leaves its mode.
LongCatalog == CatalogOk(CatalogItems(2 * BATCH_SAVE_EVERY + Extra))
LongPriors == {FileAbsent, FileOk(PriorMap("ref", "null", "ref"))}

InitWith(c, f, s, g) ==
    /\ catalog_file = c
    /\ output_file = f
    /\ prior_file = f
    /\ server = s
    /\ glitches = g
    /\ pc = "load_catalog"
    /\ run = 1
    /\ firstRun = NoFirstRun
    /\ counting = FALSE
    /\ FreshProcess

InitSmall ==
    \E c \in SmallCatalogs, f \in SmallPriors : InitWith(c, f, "chaotic", 0)

InitLarge ==
    \E f \in LargePriors, s \in {"up", "down"} :
        InitWith(LargeCatalog, f, s, MaxGlitches)

InitLong ==
    \E f \in LongPriors, s \in {"up", "down"} : InitWith(LongCatalog, f, s, 0)

Init == InitSmall \/ InitLarge \/ InitLong

\* The same start, for the behaviours that count their requests: the small
\* catalogs under any server, the large one under a server that never
\* leaves its mode.
InitCountingWith(c, f, s, g) ==
    /\ catalog_file = c
    /\ output_file = f
    /\ prior_file = f
    /\ server = s
    /\ glitches = g
    /\ pc = "load_catalog"
    /\ run = 1
    /\ firstRun = NoFirstRun
    /\ counting = TRUE
    /\ FreshProcess

CountedCatalogs ==
    {CatalogOk(CatalogItems(n)) : n \in 0..CountedTargets}
        \cup {CatalogBad("unreadable")}

CountedPriors ==
    {FileAbsent, FileCorrupt, FileOk(PriorMap("ref", "null", "ref")),
     FileOk(PriorMap("null", "absent", "absent"))}

InitCounting ==
    \/ \E c \in CountedCatalogs, f \in CountedPriors :
            InitCountingWith(c, f, "chaotic", 0)
    \/ \E f \in LargePriors, s \in {"up", "down"} :
            InitCountingWith(LargeCatalog, f, s, 0)

\* ------------------------------------------------------------- main()
\* Lines 82-89: read the catalog, collect the addresses.  An exception of
\* open() or json.load() leaves main().
LoadCatalog ==
    /\ pc = "load_catalog"
    /\ IF catalog_file.st = "ok"
       THEN /\ urls' = UrlSet(catalog_file.data)
            /\ pc' = "load_store"
       ELSE /\ urls' = urls
            /\ pc' = "aborted"
    /\ UNCHANGED <<counting,
                   catalog_file, output_file, server, glitches, run, existing,
                   to_scrape, idx, results, completed, found,
                   consecutive_fails, attempt, img, fetchObs, runObs>>

\* ReadStore with the load guarded by a blanket except: a file that does
\* not load counts as no file.
ReadStore_SwallowsCorrupt(f) ==
    IF f.st = "ok"
    THEN [raised |-> FALSE, existing |-> ResolvedSubset(JsonLoad(f.m))]
    ELSE [raised |-> FALSE, existing |-> EmptyMap]

\* Lines 91-95: existing = {} unless the file exists; then json.load(f),
\* which raises on a file that holds no JSON object.
ReadStore(f) ==
    IF f.st = "absent" THEN [raised |-> FALSE, existing |-> EmptyMap]
    ELSE IF f.st = "ok"
    THEN [raised |-> FALSE, existing |-> ResolvedSubset(JsonLoad(f.m))]
    ELSE [raised |-> TRUE, existing |-> EmptyMap]

\* Lines 91-96: the prior results, when the output file exists.
LoadStore ==
    /\ pc = "load_store"
    /\ IF ReadStore(output_file).raised
       THEN /\ existing' = existing
            /\ pc' = "aborted"
       ELSE /\ existing' = ReadStore(output_file).existing
            /\ pc' = "compute_pending"
    /\ UNCHANGED <<counting,
                   catalog_file, output_file, server, glitches, run, urls,
                   to_scrape, idx, results, completed, found,
                   consecutive_fails, attempt, img, fetchObs, runObs>>

\* ComputePending without the return of lines 102-104.
ComputePending_NoEarlyReturn ==
    /\ pc = "compute_pending"
    /\ \E order \in Shuffles(Pending(urls, existing)) : to_scrape' = order
    /\ pc' = "warmup"
    /\ UNCHANGED <<counting,
                   catalog_file, output_file, server, glitches, run, urls,
                   existing, idx, results, completed, found,
                   consecutive_fails, attempt, img, fetchObs, runObs>>

\* Lines 98-104: what is left to scrape, shuffled; nothing left: return.
ComputePending ==
    /\ pc = "compute_pending"
    /\ \E order \in Shuffles(Pending(urls, existing)) :
        /\ to_scrape' = order
        /\ pc' = IF order = <<>> THEN "done" ELSE "warmup"
    /\ UNCHANGED <<counting,
                   catalog_file, output_file, server, glitches, run, urls,
                   existing, idx, results, completed, found,
                   consecutive_fails, attempt, img, fetchObs, runObs>>

\* WarmUp without the except clause of line 117: an exception of the
\* warm-up request leaves main().
WarmUp_FailureFatal ==
    /\ pc = "warmup"
    /\ \E ok \in BOOLEAN :
        /\ slept' = ok
        /\ pc' = IF ok THEN "delay" ELSE "aborted"
    /\ warmups' = warmups + 1
    /\ results' = existing
    /\ completed' = 0
    /\ found' = Cardinality(DOMAIN existing)
    /\ consecutive_fails' = 0
    /\ idx' = 1
    /\ UNCHANGED <<counting,
                   catalog_file, output_file, server, glitches, run, urls,
                   existing, to_scrape, attempt, img, fetchObs, cooldownAt,
                   flushes, lastFlush, lost, summary, prior_file, firstRun,
                   sent>>

\* Lines 106-123: one request for the homepage, three seconds of sleep when
\* it succeeds, nothing when it raises; then the run's counters.
WarmUp ==
    /\ pc = "warmup"
    /\ \E ok \in BOOLEAN : slept' = ok
    /\ warmups' = warmups + 1
    /\ results' = existing
    /\ completed' = 0
    /\ found' = Cardinality(DOMAIN existing)
    /\ consecutive_fails' = 0
    /\ idx' = 1
    /\ pc' = "delay"
    /\ UNCHANGED <<counting,
                   catalog_file, output_file, server, glitches, run, urls,
                   existing, to_scrape, attempt, img, fetchObs, cooldownAt,
                   flushes, lastFlush, lost, summary, prior_file, firstRun,
                   sent>>

\* Lines 126-129: the base delay, then the call fetch_image_url(url).
BaseDelay ==
    /\ pc = "delay"
    /\ slept' = TRUE
    /\ attempt' = 0
    /\ pc' = "request"
    /\ UNCHANGED <<counting,
                   catalog_file, output_file, server, glitches, run, urls,
                   existing, to_scrape, idx, results, completed, found,
                   consecutive_fails, img, fetchObs, warmups, cooldownAt,
                   flushes, lastFlush, lost, summary, prior_file, firstRun,
                   sent>>

\* ------------------------------------------------- fetch_image_url()
\* An answer within the server's mode; any other answer uses up a glitch.
InMode(o) ==
    \/ server = "chaotic"
    \/ server = "up" /\ o = PageWithRef
    \/ server = "down" /\ o # PageWithRef

RateLimited(o) == o.kind = "HTTPError" /\ o.code \in {429, 403}

\* ShouldRetry with "attempt <= MAX_RETRIES".
ShouldRetry_OneTooMany(o, a) ==
    /\ o.kind = "HTTPError"
    /\ o.code = 429 \/ o.code = 403
    /\ a <= MAX_RETRIES

\* ShouldRetry with twice the retries.
ShouldRetry_TwiceTheRetries(o, a) ==
    /\ o.kind = "HTTPError"
    /\ o.code = 429 \/ o.code = 403
    /\ a < 2 * MAX_RETRIES

\* ShouldRetry without the test of e.code.
ShouldRetry_AnyHttpError(o, a) ==
    /\ o.kind = "HTTPError"
    /\ a < MAX_RETRIES

\* Line 71: "(e.code == 429 or e.code == 403) and attempt < MAX_RETRIES"
ShouldRetry(o, a) ==
    /\ o.kind = "HTTPError"
    /\ o.code = 429 \/ o.code = 403
    /\ a < MAX_RETRIES

\* Lines 69, 76, 78: the oracle's reference, or None after any exception.
FetchResult(o) == IF o = PageWithRef THEN NewRef ELSE None

\* BackoffWait without the doubling.
BackoffWait_Flat(a, jitter) == BACKOFF_BASE + jitter

\* Line 72: "(2 ** attempt) * 10 + random.uniform(2, 8)", in whole seconds.
BackoffWait(a, jitter) == (2 ^ a) * BACKOFF_BASE + jitter

Jitters == {JITTER_LO, JITTER_HI}

\* Lines 55-78 up to the sleep: one request and what becomes of its outcome.
Request ==
    /\ pc = "request"
    /\ \E o \in Outcomes :
        /\ InMode(o) \/ glitches > 0
        /\ glitches' = IF InMode(o) THEN glitches ELSE glitches - 1
        /\ lastOut' = o
        /\ reqs' = reqs + 1
        /\ blocks' = IF RateLimited(o) THEN blocks + 1 ELSE blocks
        /\ IF ShouldRetry(o, attempt)
           THEN /\ pc' = "backoff"
                /\ img' = img
                /\ backoffs' = backoffs
                /\ returned' = returned
           ELSE /\ pc' = "put"
                /\ img' = FetchResult(o)
                /\ backoffs' = <<>>
                /\ returned' = DictSet(returned, to_scrape[idx], FetchResult(o))
    /\ slept' = FALSE
    /\ sent' = IF counting THEN sent + 1 ELSE sent
    /\ UNCHANGED <<counting,
                   catalog_file, output_file, server, run, urls, existing,
                   to_scrape, idx, results, completed, found,
                   consecutive_fails, attempt, warmups, cooldownAt, flushes,
                   lastFlush, lost, summary, prior_file, firstRun>>

\* Lines 72-75: the backoff sleep, then the recursive call with attempt + 1.
Backoff ==
    /\ pc = "backoff"
    /\ \E j \in Jitters : backoffs' = Append(backoffs, BackoffWait(attempt, j))
    /\ slept' = TRUE
    /\ attempt' = attempt + 1
    /\ pc' = "request"
    /\ UNCHANGED <<counting,
                   catalog_file, output_file, server, glitches, run, urls,
                   existing, to_scrape, idx, results, completed, found,
                   consecutive_fails, img, reqs, blocks, lastOut, returned,
                   warmups, cooldownAt, flushes, lastFlush, lost, summary,
                   prior_file, firstRun, sent>>

\* ------------------------------------------------------ main(), the loop
\* ForNext without the write after the loop.
ForNext_NoFinalSave ==
    IF idx < Len(to_scrape)
    THEN [pc |-> "delay", idx |-> idx + 1]
    ELSE [pc |-> "summary", idx |-> idx]

\* ForNext with the next iteration starting at the fetch, without the sleep
\* of lines 126-127.
ForNext_SkipsDelay ==
    IF idx < Len(to_scrape)
    THEN [pc |-> "request", idx |-> idx + 1]
    ELSE [pc |-> "final_open", idx |-> idx]

\* The for statement: the next address, or the code after the loop.
ForNext ==
    IF idx < Len(to_scrape)
    THEN [pc |-> "delay", idx |-> idx + 1]
    ELSE [pc |-> "final_open", idx |-> idx]

\* SaveDue tested on the count before its increment.
SaveDue_BeforeIncrement(c) == (c - 1) % BATCH_SAVE_EVERY = 0

\* Line 148: "if completed % BATCH_SAVE_EVERY == 0", with c completed.
SaveDue(c) == c % BATCH_SAVE_EVERY = 0

AfterStreak(c) ==
    IF SaveDue(c) THEN [pc |-> "save_open", idx |-> idx] ELSE ForNext

\* Truthy that takes every result for a reference.
Truthy_Always(v) == TRUE

\* Line 133: "if img:"
Truthy(v) == v # None

\* CooldownDue with ">" for ">=".
CooldownDue_OneLate(n) == n > FAIL_THRESHOLD

\* Line 138: "if consecutive_fails >= 5", with n the incremented counter.
CooldownDue(n) == n >= FAIL_THRESHOLD

\* Lines 130-138: store the result, count it, count the streak.
Put ==
    /\ pc = "put"
    /\ results' = DictSet(results, to_scrape[idx], img)
    /\ completed' = completed + 1
    /\ IF Truthy(img)
       THEN /\ found' = found + 1
            /\ consecutive_fails' = 0
       ELSE /\ found' = found
            /\ consecutive_fails' = consecutive_fails + 1
    /\ LET next == IF ~Truthy(img) /\ CooldownDue(consecutive_fails + 1)
                   THEN [pc |-> "cooldown", idx |-> idx]
                   ELSE AfterStreak(completed + 1)
       IN  /\ pc' = next.pc
           /\ idx' = next.idx
    /\ attempt' = 0
    /\ reqs' = 0
    /\ blocks' = 0
    /\ lastOut' = NoOutcome
    /\ UNCHANGED <<counting,
                   catalog_file, output_file, server, glitches, run, urls,
                   existing, to_scrape, img, backoffs, returned, runObs>>

\* Lines 139-142: the cooldown sleep, then the streak starts again.
Cooldown ==
    /\ pc = "cooldown"
    /\ slept' = TRUE
    /\ cooldownAt' = cooldownAt \cup {completed}
    /\ consecutive_fails' = 0
    /\ pc' = AfterStreak(completed).pc
    /\ idx' = AfterStreak(completed).idx
    /\ UNCHANGED <<counting,
                   catalog_file, output_file, server, glitches, run, urls,
                   existing, to_scrape, results, completed, found, attempt,
                   img, fetchObs, warmups, flushes, lastFlush, lost, summary,
                   prior_file, firstRun, sent>>

\* Lines 149 and 152: open(OUTPUT_PATH, 'w') leaves an empty file.
OpenOutput ==
    /\ pc \in {"save_open", "final_open"}
    /\ output_file' = FileCorrupt
    /\ pc' = IF pc = "save_open" THEN "save_dump" ELSE "final_dump"
    /\ UNCHANGED <<counting,
                   catalog_file, server, glitches, run, procVars, fetchObs,
                   runObs>>

\* Lines 150 and 153: json.dump(results, f) and the file's close.
DumpResults ==
    /\ pc \in {"save_dump", "final_dump"}
    /\ output_file' = FileOk(JsonDump(results))
    /\ flushes' = flushes + 1
    /\ lastFlush' = JsonDump(results)
    /\ pc' = IF pc = "save_dump" THEN ForNext.pc ELSE "summary"
    /\ idx' = IF pc = "save_dump" THEN ForNext.idx ELSE idx
    /\ UNCHANGED <<counting,
                   catalog_file, server, glitches, run, urls, existing,
                   to_scrape, results, completed, found, consecutive_fails,
                   attempt, img, fetchObs, slept, warmups, cooldownAt, lost,
                   summary, prior_file, firstRun, sent>>

\* Lines 155-156: the summary line.
Summary ==
    /\ pc = "summary"
    /\ summary' = <<found, Cardinality(urls)>>
    /\ pc' = "done"
    /\ UNCHANGED <<counting,
                   catalog_file, output_file, server, glitches, run, procVars,
                   fetchObs, slept, warmups, cooldownAt, flushes, lastFlush,
                   lost, prior_file, firstRun, sent>>

\* ------------------------------------------------------- the process
Alive == pc \notin {"done", "aborted", "crashed"}

\* The results put by this process that the output file does not hold.
Unsaved ==
    {k \in (DOMAIN results) \ (DOMAIN existing) :
        output_file.st # "ok" \/ k \notin DOMAIN output_file.m}

\* The process is killed: its memory is gone, the files stay.
Crash ==
    /\ Alive
    /\ pc' = "crashed"
    /\ lost' = Cardinality(Unsaved)
    /\ urls' = {}
    /\ existing' = EmptyMap
    /\ to_scrape' = <<>>
    /\ idx' = 0
    /\ results' = EmptyMap
    /\ completed' = 0
    /\ found' = 0
    /\ consecutive_fails' = 0
    /\ attempt' = 0
    /\ img' = None
    /\ reqs' = 0
    /\ blocks' = 0
    /\ lastOut' = NoOutcome
    /\ backoffs' = <<>>
    /\ returned' = EmptyMap
    /\ sent' = 0
    /\ UNCHANGED <<counting,
                   catalog_file, output_file, server, glitches, run, slept,
                   warmups, cooldownAt, flushes, lastFlush, summary,
                   prior_file, firstRun>>

\* The finished process is run again: same catalog, the output file as the
\* first run left it.
Restart ==
    /\ pc = "done"
    /\ run = 1
    /\ run' = 2
    /\ pc' = "load_catalog"
    /\ prior_file' = output_file
    /\ firstRun' = [pending |-> Range(to_scrape),
                    nulls |-> {k \in DOMAIN results : results[k] = None}]
    /\ urls' = {}
    /\ existing' = EmptyMap
    /\ to_scrape' = <<>>
    /\ idx' = 0
    /\ results' = EmptyMap
    /\ completed' = 0
    /\ found' = 0
    /\ consecutive_fails' = 0
    /\ attempt' = 0
    /\ img' = None
    /\ reqs' = 0
    /\ blocks' = 0
    /\ lastOut' = NoOutcome
    /\ backoffs' = <<>>
    /\ returned' = EmptyMap
    /\ slept' = FALSE
    /\ warmups' = 0
    /\ cooldownAt' = {}
    /\ flushes' = 0
    /\ lastFlush' = EmptyMap
    /\ lost' = 0
    /\ summary' = <<>>
    /\ sent' = 0
    /\ UNCHANGED <<counting,
                   catalog_file, output_file, server, glitches>>

Next ==
    \/ LoadCatalog
    \/ LoadStore
    \/ ComputePending
    \/ WarmUp
    \/ BaseDelay
    \/ Request
    \/ Backoff
    \/ Put
    \/ Cooldown
    \/ OpenOutput
    \/ DumpResults
    \/ Summary
    \/ Crash

Spec == Init /\ [][Next]_vars

\* Two runs in a row over the small catalogs.
SpecResume == InitSmall /\ [][Next \/ Restart]_vars

\* One run that nothing kills: the steps of main() in their order.
Run ==
    \/ LoadCatalog
    \/ LoadStore
    \/ ComputePending
    \/ WarmUp
    \/ BaseDelay
    \/ Request
    \/ Backoff
    \/ Put
    \/ Cooldown
    \/ OpenOutput
    \/ DumpResults
    \/ Summary

\* main() is one sequential thread: every request and every sleep returns,
\* so the step main() is at is taken.  Requests are counted.
SpecLive == InitCounting /\ [][Run]_vars /\ WF_vars(Run)

\* ------------------------------------------------------------- claims
\* Positions of main() before to_scrape is computed.
Loading == pc \in {"load_catalog", "load_store", "compute_pending"}

\* Positions at which the process holds the state of a run under way or done.
InRun == ~Loading /\ pc \notin {"aborted", "crashed"}

\* The prior output file's entry for an address: "absent", "null" or "ref".
PriorEntry(t) ==
    IF prior_file.st # "ok" \/ t \notin DOMAIN prior_file.m THEN "absent"
    ELSE IF prior_file.m[t] = JNull THEN "null"
    ELSE "ref"

\* C1 as stated: the second of two runs in a row has nothing pending and
\* issues no request, whatever the first run's fetches returned.
C1_SecondRunEmpty ==
    run = 2 =>
        /\ to_scrape = <<>>
        /\ pc \in {"load_catalog", "load_store", "compute_pending", "done",
                   "crashed"}
        /\ warmups = 0
        /\ reqs = 0

\* C1 amended: the second run's to_scrape holds exactly the addresses whose
\* result after the first run is None, each once; when there is none, the
\* second run ends at once with no warm-up, no request and no write.
C1_SecondRunRetriesNulls ==
    (run = 2 /\ InRun) =>
        /\ Range(to_scrape) = firstRun.nulls
        /\ Len(to_scrape) = Cardinality(firstRun.nulls)
        /\ firstRun.nulls = {} =>
            /\ pc = "done"
            /\ warmups = 0
            /\ reqs = 0
            /\ flushes = 0
            /\ output_file = prior_file

\* A second run that found nothing pending after a first run that fetched.
C1_Witness ==
    /\ run = 2
    /\ pc = "done"
    /\ firstRun.pending # {}
    /\ firstRun.nulls = {}
    /\ to_scrape = <<>>

\* C2: an address of the catalog is in to_scrape exactly when the prior
\* output file has no entry or a null entry for it, and the address being
\* fetched never has a reference in the prior output file.
C2_NullIsRetriable ==
    /\ InRun =>
            Range(to_scrape) = {t \in urls : PriorEntry(t) \in {"absent", "null"}}
    /\ pc \in {"delay", "request", "backoff", "put"} =>
            PriorEntry(to_scrape[idx]) # "ref"

\* A request for an address with a null prior entry, in a run that leaves
\* out an address with a prior reference.
C2_Witness ==
    /\ pc = "request"
    /\ PriorEntry(to_scrape[idx]) = "null"
    /\ \E t \in urls : PriorEntry(t) = "ref" /\ t \notin Range(to_scrape)
    /\ \E t \in Range(to_scrape) : PriorEntry(t) = "absent"

\* C3: one top-level fetch never issues more than MAX_RETRIES + 1 requests,
\* and one whose every request was answered 429 or 403 returns None after
\* exactly MAX_RETRIES + 1 requests.
C3_RetryBound ==
    /\ reqs <= MAX_RETRIES + 1
    /\ (pc = "put" /\ blocks = reqs) =>
            /\ reqs = MAX_RETRIES + 1
            /\ img = None
            /\ returned[to_scrape[idx]] = None

\* A fetch that returned after three rate-limited requests.
C3_Witness ==
    /\ pc = "put"
    /\ blocks = MAX_RETRIES + 1
    /\ reqs = MAX_RETRIES + 1
    /\ lastOut = Outcome("HTTPError", 403)

\* A failed request that was not answered 429 or 403.
TerminalFailure(o) ==
    /\ o.kind \in {"HTTPError", "URLError", "extract_error"}
    /\ ~RateLimited(o)

\* C4: a request that fails with anything but 429/403 ends the fetch: the
\* next position is the store of None for that address, with no backoff and
\* no further request; main() is left only while loading, never by a fetch.
C4_TerminalFailureAbsorbed ==
    /\ TerminalFailure(lastOut) =>
            /\ pc = "put"
            /\ img = None
            /\ returned[to_scrape[idx]] = None
    /\ pc = "backoff" => RateLimited(lastOut)
    /\ (pc = "request" /\ reqs > 0) => RateLimited(lastOut)
    /\ pc = "aborted" => (warmups = 0 /\ DOMAIN returned = {})

\* A fetch ended by a 404 on its second request, not the run's last address.
C4_Witness ==
    /\ pc = "put"
    /\ lastOut = Outcome("HTTPError", 404)
    /\ reqs = 2
    /\ idx < Len(to_scrape)

\* C10: with an unreadable or unparsable catalog, or a corrupt prior output
\* file, main() is left while loading: no warm-up, no request, the output
\* file untouched; nothing else makes main() abort, and a missing output
\* file loads as the empty mapping.
C10_FatalAbortsEarly ==
    /\ (catalog_file.st # "ok" \/ prior_file.st = "corrupt") =>
            /\ pc \in {"load_catalog", "load_store", "aborted", "crashed"}
            /\ warmups = 0
            /\ reqs = 0
            /\ flushes = 0
            /\ output_file = prior_file
    /\ pc = "aborted" => (catalog_file.st # "ok" \/ prior_file.st = "corrupt")
    /\ (prior_file.st = "absent" /\ pc \notin {"load_catalog", "load_store",
                                               "aborted", "crashed"}) =>
            existing = EmptyMap

\* An abort on a corrupt output file under a readable catalog.
C10_Witness ==
    /\ pc = "aborted"
    /\ catalog_file.st = "ok"
    /\ output_file.st = "corrupt"
    /\ urls # {}

\* The i-th result of this run, in the order of processing.
Hist(i) == results[to_scrape[i]]

\* The streak of None results and the cooldowns the results so far call
\* for: a None adds one to the streak, anything else ends it, and a streak
\* of FAIL_THRESHOLD calls for a cooldown and starts again at 0.
RECURSIVE StreakWalk(_, _, _)
StreakWalk(i, streak, at) ==
    IF i > completed THEN [streak |-> streak, at |-> at]
    ELSE IF Hist(i) # None THEN StreakWalk(i + 1, 0, at)
    ELSE IF streak + 1 = FAIL_THRESHOLD THEN StreakWalk(i + 1, 0, at \cup {i})
    ELSE StreakWalk(i + 1, streak + 1, at)

\* C5: a cooldown sleep runs exactly where the streak of None results
\* reaches FAIL_THRESHOLD, once, and the counter restarts at 0 after it.
C5_CooldownAtThreshold ==
    InRun =>
        LET want == StreakWalk(1, 0, {})
        IN  IF pc = "cooldown"
            THEN /\ completed \in want.at
                 /\ cooldownAt = want.at \ {completed}
                 /\ consecutive_fails = FAIL_THRESHOLD
            ELSE /\ cooldownAt = want.at
                 /\ consecutive_fails = want.streak
                 /\ consecutive_fails < FAIL_THRESHOLD

\* Nine None results among the first ten, a reference in between: one
\* cooldown so far, after the tenth result and not after the fifth.
C5_Witness ==
    /\ pc = "delay"
    /\ completed = 11
    /\ cooldownAt = {10}
    /\ consecutive_fails = 1
    /\ Hist(5) # None

\* C6 as stated: a kill at any point loses at most BATCH_SAVE_EVERY - 1 of
\* the results stored by this run.
C6_CrashLossBound ==
    pc = "crashed" => lost <= BATCH_SAVE_EVERY - 1

\* C7 as stated: after a completed write, a kill leaves an output file that
\* loads and holds every entry of the last completed write.
C7_FlushedSurvives ==
    (pc = "crashed" /\ flushes > 0) =>
        /\ output_file.st = "ok"
        /\ \A k \in DOMAIN lastFlush :
                k \in DOMAIN output_file.m /\ output_file.m[k] = lastFlush[k]

\* What json.dump writes for a fetch's return value.
JsonOf(v) == IF v = None THEN JNull ELSE JString(v)

\* C8: while the next address is fetched after completed reached a positive
\* multiple of BATCH_SAVE_EVERY, the output file holds the result of every
\* address processed so far and every prior reference.
C8_FlushDurability ==
    (/\ pc \in {"delay", "request", "backoff", "put"}
     /\ completed > 0
     /\ completed % BATCH_SAVE_EVERY = 0) =>
        /\ output_file.st = "ok"
        /\ \A i \in 1..completed :
                /\ to_scrape[i] \in DOMAIN output_file.m
                /\ output_file.m[to_scrape[i]] = JsonOf(returned[to_scrape[i]])
        /\ \A k \in DOMAIN prior_file.m :
                prior_file.m[k] # JNull =>
                    /\ k \in DOMAIN output_file.m
                    /\ output_file.m[k] = prior_file.m[k]

\* The request after the first batch of a run of two batches that found
\* prior results and was given no reference.
C8_Witness ==
    /\ pc = "request"
    /\ completed = BATCH_SAVE_EVERY
    /\ Len(to_scrape) >= 2 * BATCH_SAVE_EVERY
    /\ idx = BATCH_SAVE_EVERY + 1
    /\ prior_file.st = "ok"
    /\ \A i \in 1..completed : returned[to_scrape[i]] = None

\* C9: at the end of a run that had addresses to scrape, the output file
\* was written after the last result and holds, for every address of
\* to_scrape, the reference its fetch returned or null.
C9_AllPendingPersisted ==
    (pc = "done" /\ to_scrape # <<>>) =>
        /\ flushes >= 1
        /\ output_file.st = "ok"
        /\ completed = Len(to_scrape)
        /\ \A t \in Range(to_scrape) :
                /\ t \in DOMAIN returned
                /\ t \in DOMAIN output_file.m
                /\ output_file.m[t] = JsonOf(returned[t])

\* The end of a run of more than one batch, not a whole number of batches,
\* with a reference and a None among its results.
C9_Witness ==
    /\ pc = "done"
    /\ completed > BATCH_SAVE_EVERY
    /\ completed % BATCH_SAVE_EVERY # 0
    /\ \E t \in Range(to_scrape) : returned[t] = None
    /\ \E t \in Range(to_scrape) : returned[t] = NewRef

\* The positions at which the output file is what the last json.dump of
\* this process wrote from the results as they are now.
Flushed ==
    \/ pc \in {"summary", "done"} /\ to_scrape # <<>>
    \/ /\ pc \in {"delay", "request", "backoff", "put"}
       /\ completed > 0
       /\ completed % BATCH_SAVE_EVERY = 0

\* C11: after a write of the results, loading the output file and keeping
\* its non-null entries gives exactly the entries of the results whose value
\* is not None, same keys and same values, and none whose value is None.
C11_FlushLoadRoundTrip ==
    Flushed =>
        /\ ~ReadStore(output_file).raised
        /\ LET back == ReadStore(output_file).existing
               kept == {k \in DOMAIN results : results[k] # None}
           IN  /\ DOMAIN back = kept
               /\ \A k \in kept : back[k] = results[k]
               /\ \A k \in DOMAIN back : back[k] # None

\* A written mapping that holds a None, a new reference and a reference of
\* an earlier run.
C11_Witness ==
    /\ Flushed
    /\ flushes > 0
    /\ \E k \in DOMAIN results : results[k] = None
    /\ \E k \in DOMAIN results : results[k] = NewRef
    /\ \E k \in DOMAIN results : results[k] = OldRef

\* C12: a request for an address is issued only after a sleep that followed
\* the previous request of the run, the warm-up included: the base delay
\* before the first attempt (no backoff yet), one backoff before each later
\* attempt; a request uses the sleep up, so no two requests are back to back.
C12_PacedRequests ==
    /\ pc = "request" =>
            /\ slept
            /\ reqs = attempt
            /\ Len(backoffs) = attempt
    /\ pc \in {"backoff", "put"} => ~slept
    /\ pc = "delay" => (attempt = 0 /\ reqs = 0 /\ backoffs = <<>>)

\* The third request for the second address or a later one, about to be
\* issued after two backoff sleeps.
C12_Witness ==
    /\ pc = "request"
    /\ attempt = MAX_RETRIES
    /\ Len(backoffs) = MAX_RETRIES
    /\ slept
    /\ completed > 0

\* C13: when to_scrape is computed empty, main() returns at once: no
\* warm-up request, no fetch, no sleep, no write, no summary line, and the
\* output file is as the process found it.
C13_NothingPending ==
    (InRun /\ to_scrape = <<>>) =>
        /\ pc = "done"
        /\ warmups = 0
        /\ reqs = 0
        /\ DOMAIN returned = {}
        /\ ~slept
        /\ cooldownAt = {}
        /\ flushes = 0
        /\ summary = <<>>
        /\ output_file = prior_file

\* A first run over a catalog whose every address has a prior reference.
C13_Witness ==
    /\ run = 1
    /\ pc = "done"
    /\ to_scrape = <<>>
    /\ Cardinality(urls) >= 2
    /\ \A t \in urls : PriorEntry(t) = "ref"

\* C14: the warm-up request is sent once, and whether it succeeded (the
\* three seconds of sleep happened) or raised (no sleep), main() goes on to
\* the loop with the same to_scrape, the results equal to the prior
\* references, the counters at their start values and the output file
\* untouched; main() is never left after a warm-up.
C14_WarmUpFailureNonFatal ==
    /\ warmups > 0 => pc # "aborted"
    /\ pc = "warmup" => (warmups = 0 /\ to_scrape # <<>>)
    /\ (InRun /\ to_scrape # <<>> /\ pc # "warmup") => warmups = 1
    /\ (pc = "delay" /\ completed = 0) =>
            /\ idx = 1
            /\ Range(to_scrape) = Pending(urls, existing)
            /\ Len(to_scrape) = Cardinality(Pending(urls, existing))
            /\ results = existing
            /\ found = Cardinality(DOMAIN existing)
            /\ consecutive_fails = 0
            /\ output_file = prior_file
            /\ flushes = 0

\* The loop is about to start after a warm-up request that raised, with
\* prior references loaded and more than one address to scrape.
C14_Witness ==
    /\ pc = "delay"
    /\ completed = 0
    /\ warmups = 1
    /\ ~slept
    /\ DOMAIN existing # {}
    /\ Len(to_scrape) >= 2

\* C15: a run that nothing kills ends; one that loaded its files and has
\* addresses to scrape reaches the final write of the output file and then
\* the end of main(), the file holding the results; and a run issues at most
\* MAX_RETRIES + 1 requests per address of to_scrape, plus the warm-up
\* request.
C15_Termination ==
    /\ [](sent + warmups <= Len(to_scrape) * (MAX_RETRIES + 1) + 1)
    /\ [](pc = "done" /\ to_scrape # <<>> =>
            flushes > 0 /\ output_file = FileOk(JsonDump(results)))
    /\ <>(pc \in {"done", "aborted"})
    /\ (pc = "warmup") ~> (pc = "final_dump")
    /\ (pc = "final_dump") ~> (pc = "done")

\* The end of a run of several addresses that issued every request the
\* bound allows.
C15_Witness ==
    /\ pc = "done"
    /\ counting
    /\ Len(to_scrape) >= 2
    /\ warmups = 1
    /\ sent = Len(to_scrape) * (MAX_RETRIES + 1)

\* C16 as stated: the found count of the summary line is the number of the
\* catalog's addresses whose result is not None at the end, and so is never
\* more than the count of addresses the line reports.
C16_SummaryCounts ==
    (pc = "done" /\ summary # <<>>) =>
        /\ summary[1] =
                Cardinality({t \in urls : t \in DOMAIN results /\ results[t] # None})
        /\ summary[2] = Cardinality(urls)
        /\ summary[1] <= summary[2]

\* C17: to_scrape lists each pending address once and never changes during
\* the run; once the loop is entered, results holds the prior references and
\* the addresses put so far; the i-th put writes the i-th address of to_scrape, which has no
\* entry in results before; no step of the run removes or changes an entry
\* of results; and every completed write of the output file holds every
\* non-null entry of the prior output file with its value.
C17_StoreMonotonic ==
    /\ [](InRun =>
            /\ Len(to_scrape) = Cardinality(Range(to_scrape))
            /\ (pc # "warmup" /\ to_scrape # <<>>) =>
                    DOMAIN results =
                        DOMAIN existing \cup {to_scrape[i] : i \in 1..completed}
            /\ flushes > 0 =>
                    \A k \in DOMAIN prior_file.m :
                        prior_file.m[k] # JNull =>
                            /\ k \in DOMAIN lastFlush
                            /\ lastFlush[k] = prior_file.m[k])
    /\ [][(InRun /\ InRun') =>
            /\ pc # "compute_pending" => to_scrape' = to_scrape
            /\ \A k \in DOMAIN results :
                    k \in DOMAIN results' /\ results'[k] = results[k]
            /\ completed' # completed =>
                    /\ completed' = completed + 1
                    /\ to_scrape[completed'] \notin DOMAIN results
                    /\ DOMAIN results' =
                            DOMAIN results \cup {to_scrape[completed']}]_vars

\* The end of a run of more than one batch that started from prior
\* references and wrote the output file more than once.
C17_Witness ==
    /\ pc = "done"
    /\ flushes >= 2
    /\ completed > BATCH_SAVE_EVERY
    /\ DOMAIN existing # {}
    /\ \E k \in DOMAIN results : results[k] = NewRef

\* C18: within one fetch, a backoff sleep follows only a 429/403 answer to
\* attempt k < MAX_RETRIES and is followed by the request of attempt k + 1:
\* the fetch returns straight after its last request, so it slept one time
\* less than it sent requests; the k-th backoff lasts BACKOFF_BASE * 2^(k-1)
\* plus JITTER_LO to JITTER_HI seconds, and the second is longer than the
\* first.
C18_BackoffPlacement ==
    /\ Len(backoffs) <= MAX_RETRIES
    /\ \A k \in 1..Len(backoffs) :
            /\ backoffs[k] >= BACKOFF_BASE * 2 ^ (k - 1) + JITTER_LO
            /\ backoffs[k] <= BACKOFF_BASE * 2 ^ (k - 1) + JITTER_HI
    /\ Len(backoffs) = 2 => backoffs[2] > backoffs[1]
    /\ pc = "backoff" =>
            /\ RateLimited(lastOut)
            /\ attempt < MAX_RETRIES
            /\ Len(backoffs) = attempt
            /\ reqs = attempt + 1
            /\ ~slept
    /\ pc = "request" =>
            /\ Len(backoffs) = attempt
            /\ blocks = attempt
            /\ reqs = attempt
    /\ pc = "put" =>
            /\ attempt = reqs - 1
            /\ blocks >= attempt
            /\ ~slept
            /\ ~RateLimited(lastOut) \/ attempt = MAX_RETRIES

\* The third request of a fetch, after the longest first backoff and the
\* shortest second one.
C18_Witness ==
    /\ pc = "request"
    /\ attempt = MAX_RETRIES
    /\ backoffs = <<BACKOFF_BASE + JITTER_HI, 2 * BACKOFF_BASE + JITTER_LO>>

\* C19: when an iteration of the loop starts and while its fetch runs,
\* consecutive_fails is between 0 and FAIL_THRESHOLD - 1 and completed is
\* the number of addresses put by this run; a put adds one to completed and
\* sets consecutive_fails to 0 for a reference, to one more for a None; the
\* requests and backoffs of the fetch change neither counter, and only the
\* cooldown, at FAIL_THRESHOLD, sets consecutive_fails back to 0.
C19_StreakCounter ==
    /\ []((InRun /\ to_scrape # <<>> /\ pc # "warmup") =>
            /\ completed = Cardinality((DOMAIN results) \ (DOMAIN existing))
            /\ consecutive_fails \in 0..FAIL_THRESHOLD
            /\ pc \in {"delay", "request", "backoff", "put"} =>
                    /\ consecutive_fails \in 0..(FAIL_THRESHOLD - 1)
                    /\ completed = idx - 1)
    /\ [][(InRun /\ InRun' /\ pc # "warmup") =>
            IF completed' # completed
            THEN /\ pc = "put"
                 /\ completed' = completed + 1
                 /\ consecutive_fails' =
                        IF returned[to_scrape[idx]] # None
                        THEN 0 ELSE consecutive_fails + 1
            ELSE \/ consecutive_fails' = consecutive_fails
                 \/ /\ pc = "cooldown"
                    /\ consecutive_fails = FAIL_THRESHOLD
                    /\ consecutive_fails' = 0]_vars

\* A fetch that took three requests has returned None with four None
\* results in a row before it, after an earlier reference.
C19_Witness ==
    /\ pc = "put"
    /\ reqs = MAX_RETRIES + 1
    /\ img = None
    /\ consecutive_fails = FAIL_THRESHOLD - 1
    /\ completed > FAIL_THRESHOLD
    /\ \E k \in DOMAIN returned : returned[k] = NewRef

====
